---------------------------- MODULE Spec2Model ----------------------------
(***************************************************************************)
(* A model of sync-to-r2.js: the incremental sync of the football_logos    *)
(* tree to a Cloudflare R2 bucket.  One process invocation ("run") is      *)
(* validateConfig, the recursive scan getFiles, and then, per file, the    *)
(* awaits of syncToR2's loop: getFileHash, getR2FileETag, uploadFile.      *)
(* Each await is one action; the synchronous code between two awaits       *)
(* belongs to the action that precedes it.                                 *)
(*                                                                         *)
(* Environment: the local tree is edited by other programs between runs    *)
(* (in RaceSpec also during a run); the bucket is written by this program  *)
(* only; a request or a file read may fail (a bounded number of times);    *)
(* a run may be killed at any await.                                       *)
(*                                                                         *)
(* ConvertSpec is a separate model of convert_all_to_coloring.sh.          *)
(***************************************************************************)
EXTENDS Integers, Sequences, FiniteSets, TLC

\* ------------------------------------------------------------- bounds
MaxRuns == 2
MaxEdits == 1
MaxFaults == 1

\* ------------------------------------------------------- JS values
\* A JavaScript value that is undefined, null or a string (a sequence of
\* characters).  All three have the same shape so that === is plain equality.
JSUndefined == [t |-> "undefined", v |-> <<>>]
JSNull == [t |-> "null", v |-> <<>>]
Str(s) == [t |-> "string", v |-> s]

\* JS truthiness of such a value: undefined, null and "" are falsy.
Truthy(x) == x.t = "string" /\ x.v # <<>>

\* The mutant of Or that replaces undefined and null only (a ?? b).
OrNullish(a, b) == IF a.t = "string" THEN a ELSE b

\* a || b
Or(a, b) == IF Truthy(a) THEN a ELSE b

\* ------------------------------------------------------- characters
Upper == [c \in {"s", "v", "g", "p", "n", "j", "o"} |->
            CASE c = "s" -> "S" [] c = "v" -> "V" [] c = "g" -> "G"
              [] c = "p" -> "P" [] c = "n" -> "N" [] c = "j" -> "J"
              [] c = "o" -> "O"]

\* The lower-case form of a character (the regular expression's /i flag).
LowerChar(c) ==
  IF \E l \in DOMAIN Upper : Upper[l] = c
    THEN CHOOSE l \in DOMAIN Upper : Upper[l] = c
    ELSE c

ToLower(s) == [i \in 1..Len(s) |-> LowerChar(s[i])]

\* String.prototype.endsWith (case-sensitive).
EndsWith(s, suffix) ==
  /\ Len(s) >= Len(suffix)
  /\ SubSeq(s, Len(s) - Len(suffix) + 1, Len(s)) = suffix

DotSvg == <<".", "s", "v", "g">>
DotPng == <<".", "p", "n", "g">>
DotJson == <<".", "j", "s", "o", "n">>

\* The mutant of MatchesAllowlist that forgets the $ anchor and the dot.
MatchesAllowlistUnanchored(name) ==
  \E ext \in {DotSvg, DotPng, DotJson} :
    \E i \in 1..Len(name) : \E j \in i..Len(name) :
      ToLower(SubSeq(name, i, j)) = Tail(ext)

\* file.name.match(/\.(svg|png|json)$/i)
MatchesAllowlist(name) ==
  \E ext \in {DotSvg, DotPng, DotJson} : EndsWith(ToLower(name), ext)

\* ------------------------------------------------------- the local tree
\* Directory names and file names are character sequences; a path is the
\* sequence of directory names under football_logos/ and the file's name.
DirEn == <<"e", "n">>
DirSvg == <<"l", ".", "s", "v", "g">>   \* a directory named like a logo

Dirs == {<<>>, <<DirEn>>, <<DirEn, DirSvg>>}

Path(dir, name) == [dir |-> dir, name |-> name]

FileA == Path(<<>>, <<"a", ".", "j", "s", "o", "n">>)
FileB == Path(<<DirEn>>, <<"b", ".", "s", "v", "g">>)
FileC == Path(<<DirEn, DirSvg>>, <<"c", ".", "P", "N", "G">>)
FileD == Path(<<DirEn, DirSvg>>, <<"d", ".", "s", "v", "g", ".", "b", "a", "k">>)
FileE == Path(<<DirEn>>, <<"s", "v", "g">>)

Files == {FileA, FileB, FileC, FileD, FileE}

\* File contents: byte sequences.  ContentX and ContentY have the same size.
ContentX == <<1, 2>>
ContentY == <<2, 1>>
ContentZ == <<1, 2, 3>>
Contents == {ContentX, ContentY, ContentZ}

NoFile == [present |-> FALSE, bytes |-> <<>>, mtime |-> 0]
FileOf(bytes, mtime) == [present |-> TRUE, bytes |-> bytes, mtime |-> mtime]

\* statSync(path).size
Size(file) == Len(file.bytes)


\* ------------------------------------------------------- MD5 and ETag
HexChars == <<"0", "1", "2", "3", "4", "5", "6", "7",
              "8", "9", "a", "b", "c", "d", "e", "f">>

\* The digest function, modelled as a polynomial hash of the bytes that has
\* no collision on Contents: it depends on every byte and on nothing else.
RECURSIVE DigestOf(_, _)
DigestOf(bytes, h) ==
  IF bytes = <<>> THEN h
  ELSE DigestOf(Tail(bytes), (h * 5 + Head(bytes) + 1) % 256)

\* createHash('md5').update(fileBuffer).digest('hex')
MD5Hex(bytes) ==
  LET h == DigestOf(bytes, 0)
  IN  <<HexChars[(h \div 16) + 1], HexChars[(h % 16) + 1]>>

\* The mutant of getFileHash that mixes the modification time into the digest.
getFileHashWithMtime(file) == Str(MD5Hex(file.bytes \o <<file.mtime>>))

\* The mutant of getFileHash that digests the size of the file only.
getFileHashOfSize(file) == Str(MD5Hex(<<Len(file.bytes)>>))

\* getFileHash: the digest of the file's bytes, and of nothing else.
getFileHash(file) == Str(MD5Hex(file.bytes))

Quote == "\""

\* ------------------------------------------------------- the bucket
Prefix == <<"football_logos">>

\* The mutant of R2Key that drops the directories of the relative path.
R2KeyFlat(f) == [dir |-> <<Prefix>>, name |-> f.name]

\* The mutant of R2Key that leaves out the prefix.
R2KeyNoPrefix(f) == [dir |-> f.dir, name |-> f.name]

\* r2Key = `football_logos/${relativePath}`
R2Key(f) == [dir |-> <<Prefix>> \o f.dir, name |-> f.name]

Keys == {R2Key(f) : f \in Files}

NoObject == [present |-> FALSE, bytes |-> <<>>, ctype |-> "", cache |-> ""]
ObjectOf(bytes, ctype, cache) ==
  [present |-> TRUE, bytes |-> bytes, ctype |-> ctype, cache |-> cache]

\* The store's integrity tag of a single-part upload: the quoted MD5 hex.
ETagOf(obj) == Str(<<Quote>> \o MD5Hex(obj.bytes) \o <<Quote>>)

\* The mutant of StripQuotes that leaves the ETag as the store sent it.
StripQuotesKeep(etag) == etag

\* The mutant of StripQuotes that removes the first quote only (no /g).
StripFirstQuote(etag) ==
  IF etag.t # "string" THEN JSUndefined
  ELSE LET v == etag.v
           Q == {i \in 1..Len(v) : v[i] = Quote}
       IN  IF Q = {} THEN etag
           ELSE LET p == CHOOSE i \in Q : \A j \in Q : i <= j
                IN  Str(SubSeq(v, 1, p - 1) \o SubSeq(v, p + 1, Len(v)))

\* response.ETag?.replace(/"/g, '')
StripQuotes(etag) ==
  IF etag.t = "string"
    THEN Str(SelectSeq(etag.v, LAMBDA c : c # Quote))
    ELSE JSUndefined

\* A response to HeadObject: name is "" for a success, else the error's name.
HeadOk(etag) == [name |-> "", ETag |-> etag]
HeadError(name) == [name |-> name, ETag |-> JSUndefined]

\* The result of an async function: a value, or an exception with a message.
Returned(v) == [threw |-> FALSE, value |-> v, message |-> ""]
Threw(msg) == [threw |-> TRUE, value |-> JSUndefined, message |-> msg]

\* The mutant of getR2FileETag that treats every lookup error as absence.
getR2FileETagSwallow(response) ==
  IF response.name = "" THEN Returned(StripQuotes(response.ETag))
  ELSE Returned(JSNull)

\* getR2FileETag, given the response to its HeadObject.
getR2FileETag(response) ==
  IF response.name = "" THEN Returned(StripQuotes(response.ETag))
  ELSE IF response.name = "NotFound" THEN Returned(JSNull)
  ELSE Threw(response.name)

\* uploadFile's content type, from localPath.endsWith (case-sensitive).
ContentType(name) ==
  IF EndsWith(name, DotSvg) THEN "image/svg+xml"
  ELSE IF EndsWith(name, DotPng) THEN "image/png"
  ELSE IF EndsWith(name, DotJson) THEN "application/json"
  ELSE "application/octet-stream"

CacheControl == "public, max-age=31536000, immutable"

\* ------------------------------------------------------- configuration
EnvVars == {"CLOUDFLARE_ACCOUNT_ID", "R2_ACCESS_KEY_ID",
            "R2_SECRET_ACCESS_KEY", "R2_BUCKET_NAME"}

\* An environment variable is unset, set to "" or set to a value.
EnvValues == {JSUndefined, Str(<<>>), Str(<<"x">>)}

DefaultBucket == Str(<<"football-logos">>)

\* const config = { ... }
Config(e) ==
  [accountId |-> e["CLOUDFLARE_ACCOUNT_ID"],
   accessKeyId |-> e["R2_ACCESS_KEY_ID"],
   secretAccessKey |-> e["R2_SECRET_ACCESS_KEY"],
   bucketName |-> Or(e["R2_BUCKET_NAME"], DefaultBucket)]

Required == <<"accountId", "accessKeyId", "secretAccessKey", "bucketName">>

EnvVarOf(key) ==
  IF key = "accountId" THEN "CLOUDFLARE_ACCOUNT_ID"
  ELSE IF key = "accessKeyId" THEN "R2_ACCESS_KEY_ID"
  ELSE IF key = "secretAccessKey" THEN "R2_SECRET_ACCESS_KEY"
  ELSE "R2_BUCKET_NAME"

\* The mutant of MissingKeys that tests for undefined only, not for "".
MissingKeysUndefinedOnly(cfg) ==
  SelectSeq(Required, LAMBDA key : cfg[key].t = "undefined")

\* validateConfig: required.filter(key => !config[key])
MissingKeys(cfg) == SelectSeq(Required, LAMBDA key : ~Truthy(cfg[key]))

\* validateConfig: the names it prints, in order.
MissingEnvVars(cfg) ==
  LET m == MissingKeys(cfg) IN [i \in 1..Len(m) |-> EnvVarOf(m[i])]

\* ------------------------------------------------------- the scan
\* All orders in which readdir may list a set of entries.
RECURSIVE Orderings(_)
Orderings(S) ==
  IF S = {} THEN {<<>>}
  ELSE UNION {{<<x>> \o s : s \in Orderings(S \ {x})} : x \in S}

SubDirs(dir) == {d \in Dirs : Len(d) = Len(dir) + 1 /\ SubSeq(d, 1, Len(dir)) = dir}

\* A Dirent: a subdirectory (its path in dir) or a file (a Path).
DirentOfDir(d) == [isDirectory |-> TRUE, dir |-> d, name |-> d[Len(d)]]
DirentOfFile(f) == [isDirectory |-> FALSE, dir |-> f.dir, name |-> f.name]

\* readdir(dir, { withFileTypes: true }) as a set, on tree fs.
Dirents(fs, dir) ==
  {DirentOfDir(d) : d \in SubDirs(dir)}
    \cup {DirentOfFile(f) : f \in {g \in Files : g.dir = dir /\ fs[g].present}}

\* Whether getFiles(dir) throws: a directory it reads cannot be read.
RECURSIVE getFilesThrows(_, _)
getFilesThrows(bad, dir) ==
  dir \in bad \/ \E d \in SubDirs(dir) : getFilesThrows(bad, d)

\* The lists getFiles(dir) may return, one per readdir order: a file is
\* pushed when its name matches, a directory is descended into.
RECURSIVE getFiles(_, _)
getFiles(fs, dir) ==
  LET Sub(ent) ==
        IF ent.isDirectory THEN getFiles(fs, ent.dir)
        ELSE IF MatchesAllowlist(ent.name) THEN {<<Path(ent.dir, ent.name)>>}
        ELSE {<<>>}
      RECURSIVE Walk(_)
      Walk(order) ==
        IF order = <<>> THEN {<<>>}
        ELSE {a \o b : a \in Sub(Head(order)), b \in Walk(Tail(order))}
  IN  UNION {Walk(order) : order \in Orderings(Dirents(fs, dir))}


\* ------------------------------------------------------- state
VARIABLES
  env,         \* process.env: each variable of EnvVars
  storeMode,   \* "ok", "badCreds" (the keys are refused) or "noBucket"
  unreadable,  \* the directories readdir fails on
  local,       \* the tree under football_logos/: Files -> file
  remote,      \* the bucket: Keys -> object
  pc,          \* "idle" (no process), "scan", "hash", "head", "put", and
               \* "done" (after the summary) or "exited" (process.exit(1))
  run,         \* the number of runs started
  reported,    \* the variable names validateConfig printed
  exitCode,    \* the status of the run that ended ("done": 0, "exited": 1)
  localFiles,  \* syncToR2: the scan's list
  idx,         \* syncToR2: the position of the for loop in localFiles
  localHash,   \* syncToR2: const localHash
  r2Hash,      \* syncToR2: const r2Hash
  statSize,    \* uploadFile: stats.size
  uploaded,    \* syncToR2: let uploaded
  skipped,     \* syncToR2: let skipped
  totalBytes,  \* syncToR2: let totalBytes
  errors,      \* syncToR2: const errors
  log,         \* history of the current run: reads, requests, printed lines
  prev,        \* history: how the previous run ended
  dirty,       \* history: the tree was edited since the last run ended
  faults,      \* the number of failures injected so far
  edits        \* the number of edits of the tree so far

\* The state of convert_all_to_coloring.sh and of what it runs on.
VARIABLES
  bashErrexitArith, \* the bash that runs the script applies set -e to a
                    \* (( )) command (bash 4.1 and later do, 3.2 does not)
  venvPresent,      \* venv/bin/activate exists
  found,            \* the logos find lists: *.svg under a svg/ directory
  outputs,          \* the logos whose <name>_coloring.svg exists
  cpc,              \* "idle", "loop", "summary" (the script printed its
                    \* totals, status 0) or "aborted" (set -e ended it)
  svgFiles,         \* the lines of find not yet read by the while loop
  TOTAL,            \* TOTAL
  CONVERTED,        \* CONVERTED
  FAILED,           \* FAILED
  visited           \* history: each logo the loop took, with what it did

syncVars == <<env, storeMode, unreadable, local, remote, pc, run, reported,
              exitCode, localFiles, idx, localHash, r2Hash, statSize,
              uploaded, skipped, totalBytes, errors, log, prev, dirty,
              faults, edits>>

convVars == <<bashErrexitArith, venvPresent, found, outputs, cpc, svgFiles,
              TOTAL, CONVERTED, FAILED, visited>>

\* formatBytes: its argument and what it returned.
VARIABLES
  byteCount,        \* formatBytes: the parameter bytes
  formatted         \* the string returned, as value and unit

fmtVars == <<byteCount, formatted>>

\* src/lib/data.ts: the arguments of its functions, the coloring pages that
\* exist on disk, and what the functions returned.
VARIABLES
  metadata,         \* metadata.logos
  pages,            \* the coloring-page files that exist
  queried,          \* the functions were called
  countries,        \* what getCountriesWithCounts(metadata) returned
  logosByCountry    \* what getLogosByCountry(metadata, s) returned, per s

dataVars == <<metadata, pages, queried, countries, logosByCountry>>

\* The viewer's start and stop scripts.
VARIABLES
  pidFile,          \* http_server.pid: the PID it holds, 0 when no file
  alive,            \* the PIDs of the servers that are running
  scriptRuns,       \* the number of script runs so far
  lastRun           \* history: the last script run and what it did

viewerVars == <<pidFile, alive, scriptRuns, lastRun>>

vars == <<syncVars, convVars, fmtVars, dataVars, viewerVars>>

\* What each part of the repository leaves alone.
besidesSync == <<convVars, fmtVars, dataVars, viewerVars>>
besidesConv == <<syncVars, fmtVars, dataVars, viewerVars>>
besidesFormat == <<syncVars, convVars, dataVars, viewerVars>>
besidesData == <<syncVars, convVars, fmtVars, viewerVars>>
besidesViewer == <<syncVars, convVars, fmtVars, dataVars>>

config == Config(env)

\* The tree and the bucket before the first run.  In InitRemoteStale an
\* earlier sync left FileA's key with other bytes and FileB's key in sync.
InitLocal ==
  [f \in Files |->
     IF f = FileA THEN FileOf(ContentX, 0)
     ELSE IF f = FileB THEN FileOf(ContentZ, 0)
     ELSE IF f = FileC THEN FileOf(ContentY, 0)
     ELSE FileOf(ContentX, 0)]

InitRemoteEmpty == [k \in Keys |-> NoObject]

InitRemoteStale ==
  [k \in Keys |->
     IF k = R2Key(FileA)
       THEN ObjectOf(ContentY, ContentType(FileA.name), CacheControl)
     ELSE IF k = R2Key(FileB)
       THEN ObjectOf(ContentZ, ContentType(FileB.name), CacheControl)
     ELSE NoObject]

NoPrev ==
  [summary |-> FALSE, clean |-> FALSE, quiet |-> FALSE, synced |-> {},
   interrupted |-> FALSE]

\* A bucket that does not exist holds nothing.
InitRemotes(mode) ==
  IF mode = "noBucket" THEN {InitRemoteEmpty}
  ELSE {InitRemoteEmpty, InitRemoteStale}

\* Before the first run of sync-to-r2.js: no process, nothing counted.
NoRun ==
  /\ local = InitLocal
  /\ pc = "idle"
  /\ run = 0
  /\ reported = <<>>
  /\ exitCode = 0
  /\ localFiles = <<>>
  /\ idx = 0
  /\ localHash = JSUndefined
  /\ r2Hash = JSUndefined
  /\ statSize = 0
  /\ uploaded = 0
  /\ skipped = 0
  /\ totalBytes = 0
  /\ errors = <<>>
  /\ log = <<>>
  /\ prev = NoPrev
  /\ dirty = FALSE
  /\ faults = 0
  /\ edits = 0

\* convert_all_to_coloring.sh is not run.
NoConversion ==
  /\ bashErrexitArith = FALSE
  /\ venvPresent = TRUE
  /\ found = {}
  /\ outputs = {}
  /\ cpc = "idle"
  /\ svgFiles = <<>>
  /\ TOTAL = 0
  /\ CONVERTED = 0
  /\ FAILED = 0
  /\ visited = <<>>

\* formatBytes is not called.
NoFormat ==
  /\ byteCount = [mega |-> 0, rest |-> 0]
  /\ formatted = [value |-> 0, unit |-> ""]

\* The functions of data.ts are not called.
NoQuery ==
  /\ metadata = <<>>
  /\ pages = {}
  /\ queried = FALSE
  /\ countries = <<>>
  /\ logosByCountry = <<>>

\* The viewer's scripts are not run.
NoViewer ==
  /\ pidFile = 0
  /\ alive = {}
  /\ scriptRuns = 0
  /\ lastRun = [script |-> "none", fileBefore |-> 0, aliveBefore |-> {},
                launched |-> {}, killed |-> {}]

\* sync-to-r2.js is not run.
NoSync ==
  /\ env = [v \in EnvVars |-> JSUndefined]
  /\ storeMode = "ok"
  /\ unreadable = {}
  /\ remote = InitRemoteEmpty
  /\ NoRun

Init ==
  /\ env \in [EnvVars -> EnvValues]
  /\ storeMode \in {"ok", "badCreds", "noBucket"}
  /\ unreadable \in {{}} \cup {{d} : d \in Dirs}
  /\ remote \in InitRemotes(storeMode)
  /\ NoRun
  /\ NoConversion
  /\ NoFormat
  /\ NoQuery
  /\ NoViewer

Ended == pc \in {"done", "exited"}

\* The tree is edited between two runs: after one reached its summary and
\* before the next starts.  (A run that exited with status 1 read nothing
\* of the tree that an edit could change: the next run exits the same way;
\* after a run that was killed the tree is left as it is.)
BetweenRuns == pc = "idle" /\ prev.summary /\ run < MaxRuns

\* The files other programs edit.
Edited == {FileA, FileB}

\* The mutant of localPath that takes the list from its end.
localPathFromEnd == localFiles[Len(localFiles) + 1 - idx]

\* The file the for loop is at, and its key.
localPath == localFiles[idx]
r2Key == R2Key(localPath)

\* Whether a failure may be injected into the step being taken.
MayFail == IF faults < MaxFaults THEN BOOLEAN ELSE {FALSE}

\* The files the just-ended run left in sync, each with the bytes it
\* fingerprinted (a skip) or sent (an upload).
SyncedBy(l) ==
  {[file |-> l[i].file, bytes |-> l[i].bytes, text |-> l[i].text] :
     i \in {j \in 1..Len(l) : l[j].op \in {"skip", "put"} /\ l[j].ok}}

\* ------------------------------------------------------- the environment
\* Another program writes bytes to a file (creating it if need be).
WriteFile(f, bytes) ==
  /\ BetweenRuns /\ edits < MaxEdits
  /\ ~(local[f].present /\ local[f].bytes = bytes)
  /\ local' = [local EXCEPT ![f] = FileOf(bytes, edits + 1)]
  /\ edits' = edits + 1
  /\ dirty' = TRUE
  /\ UNCHANGED <<env, storeMode, unreadable, remote, pc, run, reported,
                 exitCode, localFiles, idx, localHash, r2Hash, statSize,
                 uploaded, skipped, totalBytes, errors, log, prev, faults>>
  /\ UNCHANGED besidesSync

\* Another program changes a file's modification time only.
TouchFile(f) ==
  /\ BetweenRuns /\ edits < MaxEdits
  /\ local[f].present
  /\ local' = [local EXCEPT ![f].mtime = edits + 1]
  /\ edits' = edits + 1
  /\ dirty' = TRUE
  /\ UNCHANGED <<env, storeMode, unreadable, remote, pc, run, reported,
                 exitCode, localFiles, idx, localHash, r2Hash, statSize,
                 uploaded, skipped, totalBytes, errors, log, prev, faults>>
  /\ UNCHANGED besidesSync

\* Another program deletes a file.
DeleteFile(f) ==
  /\ BetweenRuns /\ edits < MaxEdits
  /\ local[f].present
  /\ local' = [local EXCEPT ![f] = NoFile]
  /\ edits' = edits + 1
  /\ dirty' = TRUE
  /\ UNCHANGED <<env, storeMode, unreadable, remote, pc, run, reported,
                 exitCode, localFiles, idx, localHash, r2Hash, statSize,
                 uploaded, skipped, totalBytes, errors, log, prev, faults>>
  /\ UNCHANGED besidesSync


\* ------------------------------------------------------- history records
NoPath == Path(<<>>, <<>>)

\* One entry of log.  op is "scan" (readdir of the tree), "hash" (readFile
\* and digest), "head" (a HeadObject request), "skip" (the skip branch),
\* "put" (a PutObject request) or "error" (the per-file catch block); text
\* is the kind of line printed, if any.  A "head" entry also keeps what the
\* bucket held at the key when the request was made (there, bytes) and the
\* name of the error the request ended with (message).
Event(op, f) ==
  [op |-> op, file |-> f, ok |-> TRUE, bytes |-> <<>>,
   hash |-> JSUndefined, etag |-> JSUndefined,
   bucket |-> JSUndefined, key |-> R2Key(f), ctype |-> "", cache |-> "",
   size |-> 0, text |-> "", message |-> "", there |-> FALSE]

\* ------------------------------------------------------- the program
\* The mutant of Advance that steps over the file after the current one.
AdvanceByTwo ==
  /\ pc' = IF idx < Len(localFiles) THEN "hash" ELSE "done"
  /\ idx' = IF idx + 1 < Len(localFiles) THEN idx + 2
            ELSE IF idx < Len(localFiles) THEN idx + 1 ELSE idx
  /\ localHash' = JSUndefined
  /\ r2Hash' = JSUndefined
  /\ statSize' = 0

\* The mutant of Advance that starts the next file at its remote lookup.
AdvanceToLookup ==
  /\ pc' = IF idx < Len(localFiles) THEN "head" ELSE "done"
  /\ idx' = IF idx < Len(localFiles) THEN idx + 1 ELSE idx
  /\ localHash' = JSUndefined
  /\ r2Hash' = JSUndefined
  /\ statSize' = 0

\* The end of one iteration of the for loop: the next file, or the summary.
Advance ==
  /\ pc' = IF idx < Len(localFiles) THEN "hash" ELSE "done"
  /\ idx' = IF idx < Len(localFiles) THEN idx + 1 ELSE idx
  /\ localHash' = JSUndefined
  /\ r2Hash' = JSUndefined
  /\ statSize' = 0

\* The mutant of Catch that lets a file's error end the run.
CatchAndAbort(l, msg) ==
  /\ errors' = Append(errors, [file |-> localPath, error |-> msg])
  /\ log' = Append(l, [Event("error", localPath) EXCEPT
                         !.ok = FALSE, !.text = "Error", !.message = msg])
  /\ pc' = "exited"
  /\ exitCode' = 1
  /\ UNCHANGED <<idx, localHash, r2Hash, statSize>>

\* The mutant of Catch that makes a recorded error set the exit status.
CatchAndFlag(l, msg) ==
  /\ errors' = Append(errors, [file |-> localPath, error |-> msg])
  /\ log' = Append(l, [Event("error", localPath) EXCEPT
                         !.ok = FALSE, !.text = "Error", !.message = msg])
  /\ Advance
  /\ exitCode' = 1

\* The mutant of Catch that tries the same file again after recording it.
CatchAndRetry(l, msg) ==
  /\ errors' = Append(errors, [file |-> localPath, error |-> msg])
  /\ log' = Append(l, [Event("error", localPath) EXCEPT
                         !.ok = FALSE, !.text = "Error", !.message = msg])
  /\ pc' = "hash"
  /\ localHash' = JSUndefined /\ r2Hash' = JSUndefined /\ statSize' = 0
  /\ UNCHANGED <<idx, exitCode>>

\* The mutant of Catch that puts the error at the front of the list.
CatchUnshift(l, msg) ==
  /\ errors' = <<[file |-> localPath, error |-> msg]>> \o errors
  /\ log' = Append(l, [Event("error", localPath) EXCEPT
                         !.ok = FALSE, !.text = "Error", !.message = msg])
  /\ Advance
  /\ UNCHANGED exitCode

\* The per-file catch block: record the error, go on with the next file.
\* l is the log up to the throw.
Catch(l, msg) ==
  /\ errors' = Append(errors, [file |-> localPath, error |-> msg])
  /\ log' = Append(l, [Event("error", localPath) EXCEPT
                         !.ok = FALSE, !.text = "Error", !.message = msg])
  /\ Advance
  /\ UNCHANGED exitCode

\* The mutant of ShouldSkip that skips whatever the bucket holds.
ShouldSkipIfPresent(lh, rh) == Truthy(rh)

\* The mutant of ShouldSkip that uploads every file.
ShouldSkipNever(lh, rh) == FALSE

\* if (r2Hash === localHash)
ShouldSkip(lh, rh) == rh = lh

\* The mutant of UploadLine that swaps the two words.
UploadLineSwapped(rh) == IF Truthy(rh) THEN "Uploaded" ELSE "Updated"

\* r2Hash ? 'Updated' : 'Uploaded'
UploadLine(rh) == IF Truthy(rh) THEN "Updated" ELSE "Uploaded"

\* The mutant of AddBytes that counts one per upload.
AddBytesOne(total, bytes) == total + 1

\* totalBytes += bytes
AddBytes(total, bytes) == total + bytes

\* node sync-to-r2.js, up to the call of syncToR2: validateConfig either
\* prints the missing variables and exits with status 1, or returns.
Start ==
  /\ pc = "idle" /\ run < MaxRuns
  /\ run' = run + 1
  /\ prev' = [prev EXCEPT !.quiet = ~dirty]
  /\ dirty' = FALSE
  /\ reported' = MissingEnvVars(config)
  /\ IF MissingKeys(config) # <<>>
       THEN pc' = "exited" /\ exitCode' = 1
       ELSE pc' = "scan" /\ exitCode' = 0
  /\ UNCHANGED <<env, storeMode, unreadable, local, remote, localFiles, idx,
                 localHash, r2Hash, statSize, uploaded, skipped, totalBytes,
                 errors, log, faults, edits>>
  /\ UNCHANGED besidesSync

\* The process ends, after the summary (status 0) or after process.exit(1):
\* nothing of it is kept but what it wrote to the bucket.
Exit ==
  /\ Ended
  /\ pc' = "idle"
  /\ prev' = [summary |-> pc = "done",
              clean |-> pc = "done" /\ errors = <<>>,
              quiet |-> FALSE,
              synced |-> IF pc = "done" THEN SyncedBy(log) ELSE {},
              interrupted |-> FALSE]
  /\ log' = <<>>
  /\ reported' = <<>> /\ exitCode' = 0
  /\ localFiles' = <<>> /\ idx' = 0
  /\ localHash' = JSUndefined /\ r2Hash' = JSUndefined /\ statSize' = 0
  /\ uploaded' = 0 /\ skipped' = 0 /\ totalBytes' = 0 /\ errors' = <<>>
  /\ UNCHANGED <<env, storeMode, unreadable, local, remote, run, dirty,
                 faults, edits>>
  /\ UNCHANGED besidesSync

\* The process is killed while syncToR2 is at one of its awaits: it handles
\* no signal and keeps no state of its own, so nothing is left of the run
\* but what it wrote to the bucket.  A PutObject that was in flight either
\* took effect or did not.
Interrupt ==
  /\ pc \in {"scan", "hash", "head", "put"}
  /\ \E landed \in IF /\ pc = "put" /\ storeMode = "ok"
                      /\ local[localPath].present
                   THEN BOOLEAN ELSE {FALSE} :
       remote' = IF landed
                   THEN [remote EXCEPT ![r2Key] =
                           ObjectOf(local[localPath].bytes,
                                    ContentType(localPath.name), CacheControl)]
                   ELSE remote
  /\ pc' = "idle"
  /\ prev' = [summary |-> FALSE, clean |-> FALSE, quiet |-> FALSE,
              synced |-> SyncedBy(log), interrupted |-> TRUE]
  /\ log' = <<>>
  /\ reported' = <<>> /\ exitCode' = 0
  /\ localFiles' = <<>> /\ idx' = 0
  /\ localHash' = JSUndefined /\ r2Hash' = JSUndefined /\ statSize' = 0
  /\ uploaded' = 0 /\ skipped' = 0 /\ totalBytes' = 0 /\ errors' = <<>>
  /\ UNCHANGED <<env, storeMode, unreadable, local, run, dirty, faults,
                 edits>>
  /\ UNCHANGED besidesSync

\* syncToR2 up to the for loop: getFiles(logosDir).  A readdir that throws
\* reaches the outer catch: 'Sync failed', exit status 1.
Scan ==
  /\ pc = "scan"
  /\ IF getFilesThrows(unreadable, <<>>)
       THEN /\ pc' = "exited" /\ exitCode' = 1
            /\ log' = Append(log, [Event("scan", NoPath) EXCEPT !.ok = FALSE])
            /\ UNCHANGED <<localFiles, idx>>
       ELSE \E list \in getFiles(local, <<>>) :
              /\ localFiles' = list
              /\ log' = Append(log, Event("scan", NoPath))
              /\ pc' = IF list = <<>> THEN "done" ELSE "hash"
              /\ idx' = IF list = <<>> THEN 0 ELSE 1
              /\ UNCHANGED exitCode
  /\ UNCHANGED <<env, storeMode, unreadable, local, remote, run, reported,
                 localHash, r2Hash, statSize, uploaded, skipped, totalBytes,
                 errors, prev, dirty, faults, edits>>
  /\ UNCHANGED besidesSync

\* await getFileHash(localPath)
Fingerprint ==
  /\ pc = "hash"
  /\ \E fail \in MayFail :
       LET file == local[localPath]
           res == IF fail THEN Threw("EACCES")
                  ELSE IF ~file.present THEN Threw("ENOENT")
                  ELSE Returned(getFileHash(file))
           ev == [Event("hash", localPath) EXCEPT
                    !.ok = ~res.threw, !.bytes = file.bytes,
                    !.hash = res.value]
       IN  /\ faults' = IF fail THEN faults + 1 ELSE faults
           /\ IF res.threw
                THEN Catch(Append(log, ev), res.message)
                ELSE /\ localHash' = res.value
                     /\ pc' = "head"
                     /\ log' = Append(log, ev)
                     /\ UNCHANGED <<idx, r2Hash, statSize, errors, exitCode>>
  /\ UNCHANGED <<env, storeMode, unreadable, local, remote, run, reported,
                 localFiles, uploaded, skipped, totalBytes, prev, dirty,
                 edits>>
  /\ UNCHANGED besidesSync

\* The store's answer to HeadObject(Bucket, Key).
HeadObject(key, fail) ==
  IF storeMode = "badCreds" THEN HeadError("Forbidden")
  ELSE IF storeMode = "noBucket" THEN HeadError("NotFound")
  ELSE IF fail THEN HeadError("TimeoutError")
  ELSE IF remote[key].present THEN HeadOk(ETagOf(remote[key]))
  ELSE HeadError("NotFound")

\* await getR2FileETag(r2Key), the comparison, and either the skip branch
\* or uploadFile up to its await: createReadStream, statSync, the command.
Resolve ==
  /\ pc = "head"
  /\ \E fail \in IF storeMode = "ok" THEN MayFail ELSE {FALSE} :
       LET res == getR2FileETag(HeadObject(r2Key, fail))
           ev == [Event("head", localPath) EXCEPT
                    !.ok = ~res.threw, !.hash = localHash,
                    !.etag = res.value, !.bucket = config.bucketName,
                    !.there = remote[r2Key].present,
                    !.bytes = remote[r2Key].bytes,
                    !.message = HeadObject(r2Key, fail).name]
           file == local[localPath]
       IN  /\ faults' = IF fail THEN faults + 1 ELSE faults
           /\ IF res.threw
                THEN /\ Catch(Append(log, ev), res.message)
                     /\ UNCHANGED skipped
                ELSE IF ShouldSkip(localHash, res.value)
                  THEN /\ skipped' = skipped + 1
                       /\ log' = log \o
                            <<ev, [Event("skip", localPath) EXCEPT
                                     !.bytes = log[Len(log)].bytes,
                                     !.hash = localHash,
                                     !.etag = res.value, !.text = "Skip"]>>
                       /\ Advance
                       /\ UNCHANGED <<errors, exitCode>>
                ELSE IF ~file.present
                  THEN /\ Catch(Append(log, ev), "ENOENT")
                       /\ UNCHANGED skipped
                ELSE /\ r2Hash' = res.value
                     /\ statSize' = Size(file)
                     /\ pc' = "put"
                     /\ log' = Append(log, ev)
                     /\ UNCHANGED <<idx, localHash, skipped, errors, exitCode>>
  /\ UNCHANGED <<env, storeMode, unreadable, local, remote, run, reported,
                 localFiles, uploaded, totalBytes, prev, dirty, edits>>
  /\ UNCHANGED besidesSync

\* await r2Client.send(PutObjectCommand) in uploadFile, which sends the
\* bytes the stream reads, and the rest of the upload branch.
Upload ==
  /\ pc = "put"
  /\ \E fail \in IF storeMode = "ok" THEN MayFail ELSE {FALSE} :
       LET file == local[localPath]
           msg == IF ~file.present THEN "ENOENT"
                  ELSE IF storeMode = "noBucket" THEN "NoSuchBucket"
                  ELSE IF storeMode = "badCreds" THEN "Forbidden"
                  ELSE IF fail THEN "TimeoutError"
                  ELSE ""
           obj == ObjectOf(file.bytes, ContentType(localPath.name),
                           CacheControl)
           ev == [Event("put", localPath) EXCEPT
                    !.ok = (msg = ""), !.bytes = file.bytes,
                    !.hash = localHash, !.etag = r2Hash,
                    !.bucket = config.bucketName, !.ctype = obj.ctype,
                    !.cache = obj.cache, !.size = statSize,
                    !.text = IF msg = "" THEN UploadLine(r2Hash)
                             ELSE "",
                    !.message = msg]
       IN  /\ faults' = IF fail THEN faults + 1 ELSE faults
           /\ IF msg # ""
                THEN /\ Catch(Append(log, ev), msg)
                     /\ UNCHANGED <<remote, uploaded, totalBytes>>
                ELSE /\ remote' = [remote EXCEPT ![r2Key] = obj]
                     /\ totalBytes' = AddBytes(totalBytes, statSize)
                     /\ uploaded' = uploaded + 1
                     /\ log' = Append(log, ev)
                     /\ Advance
                     /\ UNCHANGED <<errors, exitCode>>
  /\ UNCHANGED <<env, storeMode, unreadable, local, run, reported,
                 localFiles, skipped, prev, dirty, edits>>
  /\ UNCHANGED besidesSync

Next ==
  \/ Start
  \/ Exit
  \/ Interrupt
  \/ Scan
  \/ Fingerprint
  \/ Resolve
  \/ Upload
  \/ \E f \in Edited, bytes \in Contents : WriteFile(f, bytes)
  \/ \E f \in Edited : TouchFile(f)
  \/ \E f \in Edited : DeleteFile(f)

Spec == Init /\ [][Next]_vars


\* Another program rewrites the file the loop is at while the run awaits
\* the answer to its HeadObject: after getFileHash read the file, before
\* uploadFile opens it again.
ModifyDuringRun(bytes) ==
  /\ pc = "head" /\ edits < MaxEdits
  /\ local[localPath].bytes # bytes
  /\ local' = [local EXCEPT ![localPath] = FileOf(bytes, edits + 1)]
  /\ edits' = edits + 1
  /\ dirty' = TRUE
  /\ UNCHANGED <<env, storeMode, unreadable, remote, pc, run, reported,
                 exitCode, localFiles, idx, localHash, r2Hash, statSize,
                 uploaded, skipped, totalBytes, errors, log, prev, faults>>
  /\ UNCHANGED besidesSync

\* The program with a tree that is also edited during a run.
RaceNext ==
  \/ Next
  \/ \E bytes \in Contents : ModifyDuringRun(bytes)

RaceSpec == Init /\ [][RaceNext]_vars

\* A request never answers.  r2Client.send is awaited with neither a
\* timeout nor an abort signal, and the client is built with none, so
\* nothing the program does ends the wait: the run stays where it is.
Hang ==
  /\ pc \in {"head", "put"}
  /\ pc' = "stalled"
  /\ UNCHANGED <<env, storeMode, unreadable, local, remote, run, reported,
                 exitCode, localFiles, idx, localHash, r2Hash, statSize,
                 uploaded, skipped, totalBytes, errors, log, prev, dirty,
                 faults, edits>>
  /\ UNCHANGED besidesSync

\* The program with a store that may leave a request unanswered.  Every
\* step that can be taken is taken in the end: the event loop runs a
\* continuation as soon as its promise settles.
HangNext ==
  \/ Next
  \/ Hang

HangSpec == Init /\ [][HangNext]_vars /\ WF_vars(HangNext)

\* ------------------------------------------- convert_all_to_coloring.sh
\* A logo: football_logos/<country>/svg/<name>.svg.  Its coloring page is
\* football_logos/<country>/coloring-pages/<name>_coloring.svg.
LogoA == [country |-> "england", name |-> "Arsenal"]
LogoB == [country |-> "england", name |-> "Chelsea"]
LogoC == [country |-> "spain", name |-> "Barcelona"]
Logos == {LogoA, LogoB, LogoC}

\* The exit status of the command ((v++)) when the variable holds v: an
\* arithmetic command fails when its expression, here the old value, is 0.
PostIncrementStatus(v) == IF v = 0 THEN 1 ELSE 0

\* set -e: a failing command ends the script.  Before bash 4.1 a (( ))
\* command is not subject to it.
Errexit(status) == bashErrexitArith /\ status # 0

\* One entry of visited.
Visit(logo, outcome) == [logo |-> logo, outcome |-> outcome]

\* The script up to its loop: source venv/bin/activate, which ends the
\* script under set -e when the file is missing; TOTAL from the first find;
\* the counters; the second find, whose lines the loop will read.
ConvStart ==
  /\ cpc = "idle" /\ visited = <<>>
  /\ CONVERTED' = 0 /\ FAILED' = 0
  /\ IF ~venvPresent
       THEN cpc' = "aborted" /\ UNCHANGED <<TOTAL, svgFiles>>
       ELSE /\ TOTAL' = Cardinality(found)
            /\ \E order \in Orderings(found) : svgFiles' = order
            /\ cpc' = "loop"
  /\ UNCHANGED <<bashErrexitArith, venvPresent, found, outputs, visited>>
  /\ UNCHANGED besidesConv

\* One iteration for a logo whose coloring page exists: 'Skipped (exists)',
\* ((CONVERTED++)), continue.
SkipExisting ==
  /\ cpc = "loop" /\ svgFiles # <<>>
  /\ Head(svgFiles) \in outputs
  /\ CONVERTED' = CONVERTED + 1
  /\ visited' = Append(visited, Visit(Head(svgFiles), "skipped"))
  /\ svgFiles' = Tail(svgFiles)
  /\ cpc' = IF Errexit(PostIncrementStatus(CONVERTED)) THEN "aborted"
            ELSE "loop"
  /\ UNCHANGED <<bashErrexitArith, venvPresent, found, outputs, TOTAL, FAILED>>
  /\ UNCHANGED besidesConv

\* One iteration for a logo with no coloring page: the converter is run;
\* if it succeeds (it wrote the page) ((CONVERTED++)), else ((FAILED++)).
ConvertLogo ==
  /\ cpc = "loop" /\ svgFiles # <<>>
  /\ Head(svgFiles) \notin outputs
  /\ \E ok \in BOOLEAN :
       /\ outputs' = IF ok THEN outputs \cup {Head(svgFiles)} ELSE outputs
       /\ CONVERTED' = IF ok THEN CONVERTED + 1 ELSE CONVERTED
       /\ FAILED' = IF ok THEN FAILED ELSE FAILED + 1
       /\ visited' = Append(visited,
                            Visit(Head(svgFiles),
                                  IF ok THEN "converted" ELSE "failed"))
       /\ cpc' = IF Errexit(PostIncrementStatus(IF ok THEN CONVERTED
                                                ELSE FAILED))
                   THEN "aborted" ELSE "loop"
  /\ svgFiles' = Tail(svgFiles)
  /\ UNCHANGED <<bashErrexitArith, venvPresent, found, TOTAL>>
  /\ UNCHANGED besidesConv

\* read finds no line left: the loop ends and the totals are printed.
ConvSummary ==
  /\ cpc = "loop" /\ svgFiles = <<>>
  /\ cpc' = "summary"
  /\ UNCHANGED <<bashErrexitArith, venvPresent, found, outputs, svgFiles,
                 TOTAL, CONVERTED, FAILED, visited>>
  /\ UNCHANGED besidesConv

\* One run of the script, on any set of logos of which any may have its
\* coloring page already, under either kind of bash.
ConvertInit ==
  /\ NoSync
  /\ NoFormat
  /\ NoQuery
  /\ NoViewer
  /\ bashErrexitArith \in BOOLEAN
  /\ venvPresent \in BOOLEAN
  /\ found \in SUBSET Logos
  /\ outputs \in SUBSET Logos
  /\ cpc = "idle"
  /\ svgFiles = <<>>
  /\ TOTAL = 0
  /\ CONVERTED = 0
  /\ FAILED = 0
  /\ visited = <<>>

ConvertNext ==
  \/ ConvStart
  \/ SkipExisting
  \/ ConvertLogo
  \/ ConvSummary

ConvertSpec == ConvertInit /\ [][ConvertNext]_vars

\* ------------------------------------------------------- reading the log
\* The positions of the log's entries of kind op about file f.
EventsOf(op, f) == {i \in 1..Len(log) : log[i].op = op /\ log[i].file = f}

\* The positions of the log's entries of kind op.
AllEvents(op) == {i \in 1..Len(log) : log[i].op = op}

\* The lookups that returned (a digest or 'absent').
Lookups == {i \in AllEvents("head") : log[i].ok}

\* The lookup at position i led to the skip branch.
Skipped(i) ==
  i < Len(log) /\ log[i + 1].op = "skip" /\ log[i + 1].file = log[i].file

\* The lookup at position i led to the upload branch: uploadFile was
\* called, and its PutObject request is pending or was made.
UploadCalled(i) ==
  IF i = Len(log) THEN pc = "put" /\ localPath = log[i].file
  ELSE log[i + 1].op = "put" /\ log[i + 1].file = log[i].file

\* The files of the scan's list, as a set.
Scanned == {localFiles[i] : i \in 1..Len(localFiles)}

\* The sum of the sizes of the local files of S.
RECURSIVE SumOfSizes(_)
SumOfSizes(S) ==
  IF S = {} THEN 0
  ELSE LET f == CHOOSE g \in S : TRUE
       IN  Size(local[f]) + SumOfSizes(S \ {f})

\* ------------------------------------------------------- claims
\* C1 (idempotence): when the previous run reached its summary with no
\* per-file error and the tree was not edited since, this run issues no
\* PutObject at all, ends with uploaded = 0 and totalBytes = 0, and counts
\* every scanned file as skipped unless a request or a read of this run
\* itself fails (then that file is counted as an error, and still not
\* uploaded).
Idempotence ==
  (prev.clean /\ prev.quiet /\ pc \notin {"idle", "exited"}) =>
    /\ AllEvents("put") = {}
    /\ uploaded = 0 /\ totalBytes = 0
    /\ pc # "put"
    /\ pc = "done" =>
         /\ skipped + Len(errors) = Len(localFiles)
         /\ AllEvents("error") = {} => skipped = Len(localFiles)

\* A second run over three files, all skipped, after a first run that
\* uploaded files and had no error.
IdempotenceWitness ==
  /\ pc = "done" /\ prev.clean /\ prev.quiet
  /\ \E s \in prev.synced : s.text = "Uploaded"
  /\ Len(localFiles) = 3 /\ skipped = 3
  /\ Cardinality(AllEvents("head")) = 3

\* C2 (content-addressed correctness): for a file the previous run left in
\* sync (it skipped it or uploaded it), when this run's lookup of the file
\* returns: if the file's bytes now differ from the synced ones, the same
\* size included, the file is classified Modified (the bucket's digest is
\* present and differs from the local one), uploadFile is called for it and
\* a successful upload stores the new bytes and prints 'Updated'; if the
\* bytes are the synced ones, whatever its modification time, the file is
\* skipped and no PutObject is issued for it.
ContentAddressed ==
  \A s \in prev.synced :
    \A i \in Lookups :
      log[i].file = s.file =>
        IF local[s.file].bytes # s.bytes
          THEN /\ Truthy(log[i].etag) /\ log[i].etag # log[i].hash
               /\ ~Skipped(i)
               /\ UploadCalled(i)
               /\ \A j \in EventsOf("put", s.file) :
                    /\ log[j].bytes = local[s.file].bytes
                    /\ log[j].ok =>
                         /\ log[j].text = "Updated"
                         /\ remote[R2Key(s.file)].bytes = local[s.file].bytes
          ELSE /\ Skipped(i)
               /\ EventsOf("put", s.file) = {}

\* FileA was synced, then rewritten with other bytes of the same size, and
\* this run updated it; FileB, synced and untouched since, was skipped.
ContentAddressedWitness ==
  /\ pc = "done"
  /\ \E s \in prev.synced :
       /\ s.file = FileA
       /\ local[FileA].bytes # s.bytes
       /\ Len(local[FileA].bytes) = Len(s.bytes)
       /\ \E j \in EventsOf("put", FileA) : log[j].ok /\ log[j].text = "Updated"
  /\ \E s \in prev.synced :
       /\ s.file = FileB
       /\ local[FileB].bytes = s.bytes
       /\ EventsOf("skip", FileB) # {}


\* C3 (new-file detection): when the lookup of a file returns and the
\* bucket holds nothing at the file's key, the file is classified New (the
\* lookup's result is null, the skip branch is not taken), exactly one
\* PutObject is issued for it in the run, and a successful one stores the
\* file's bytes and prints 'Uploaded'; and in the next run a file that was
\* uploaded as New and has the same bytes still is skipped on lookup, with
\* no PutObject issued for it.
NewFileDetection ==
  /\ \A i \in Lookups :
       ~log[i].there =>
         LET f == log[i].file IN
         /\ log[i].etag = JSNull
         /\ ~Skipped(i)
         /\ UploadCalled(i)
         /\ Cardinality(EventsOf("put", f)) = (IF i = Len(log) THEN 0 ELSE 1)
         /\ \A j \in EventsOf("put", f) :
              log[j].ok =>
                /\ log[j].text = "Uploaded"
                /\ remote[R2Key(f)] =
                     ObjectOf(local[f].bytes, log[j].ctype, log[j].cache)
  /\ \A s \in prev.synced :
       (s.text = "Uploaded" /\ local[s.file].bytes = s.bytes) =>
         /\ EventsOf("put", s.file) = {}
         /\ \A i \in Lookups : log[i].file = s.file => Skipped(i)

\* FileC, absent from the bucket, was uploaded as New by the previous run
\* and is skipped by this one.
NewFileDetectionWitness ==
  /\ pc = "done"
  /\ \E s \in prev.synced : s.file = FileC /\ s.text = "Uploaded"
  /\ EventsOf("skip", FileC) # {}
  /\ \E i \in Lookups : log[i].file = FileC /\ log[i].there

\* C4 (failure isolation): a file's error never ends the run: the entry
\* after an 'error' entry is the fingerprint of the next file of the list,
\* or the run is at that file, or (after the last file) at the summary; a
\* run exits with status 1 only with no per-file error recorded.  At the
\* summary of a run over N files in which exactly one PutObject failed and
\* nothing else did, uploaded + skipped = N - 1, every other file was
\* skipped or uploaded, and the error list is one entry naming that file.
FailureIsolation ==
  /\ pc = "exited" => errors = <<>> /\ AllEvents("error") = {}
  /\ \A i \in AllEvents("error") :
       \E k \in 1..Len(localFiles) :
         /\ localFiles[k] = log[i].file
         /\ IF i < Len(log)
              THEN /\ k < Len(localFiles)
                   /\ log[i + 1].op = "hash"
                   /\ log[i + 1].file = localFiles[k + 1]
              ELSE IF k < Len(localFiles)
                THEN pc = "hash" /\ idx = k + 1
                ELSE pc = "done" /\ exitCode = 0
  /\ \A j \in AllEvents("put") :
       (/\ pc = "done"
        /\ ~log[j].ok
        /\ \A i \in 1..Len(log) : (~log[i].ok /\ log[i].op # "error") => i = j)
       => /\ uploaded + skipped = Len(localFiles) - 1
          /\ Len(errors) = 1
          /\ errors[1].file = log[j].file
          /\ \A f \in Scanned \ {log[j].file} :
               \/ EventsOf("skip", f) # {}
               \/ \E u \in EventsOf("put", f) : log[u].ok

\* One PutObject of three files failed, for a file that is not the last of
\* the list, and the run reached its summary with the two others done.
FailureIsolationWitness ==
  /\ pc = "done" /\ Len(localFiles) = 3
  /\ Len(errors) = 1 /\ errors[1].file # localFiles[3]
  /\ \E j \in AllEvents("put") : ~log[j].ok /\ log[j].file = errors[1].file
  /\ uploaded + skipped = 2 /\ uploaded > 0

\* C5 (sync decision): for every lookup that returned, with the local
\* digest lh and the bucket's state at the key: the file is skipped
\* (Unchanged) iff the bucket holds an object whose digest is lh; uploadFile
\* is called iff it is not skipped; a completed upload prints 'Uploaded'
\* (New) iff the bucket held nothing at the key and 'Updated' (Modified)
\* iff it held an object with another digest; a skip prints neither.
SyncDecision ==
  \A i \in Lookups :
    LET f == log[i].file
        lh == MD5Hex(local[f].bytes)
        same == log[i].there /\ MD5Hex(log[i].bytes) = lh
    IN  /\ log[i].hash = Str(lh)
        /\ Skipped(i) <=> same
        /\ UploadCalled(i) <=> ~same
        /\ Skipped(i) => log[i + 1].text = "Skip" /\ EventsOf("put", f) = {}
        /\ \A j \in EventsOf("put", f) :
             log[j].ok =>
               /\ log[j].text = "Uploaded" <=> ~log[i].there
               /\ log[j].text = "Updated" <=> (log[i].there /\ ~same)

\* One run that skipped one file, uploaded one as New and one as Modified.
SyncDecisionWitness ==
  /\ pc = "done"
  /\ \E j \in AllEvents("put") : log[j].ok /\ log[j].text = "Uploaded"
  /\ \E j \in AllEvents("put") : log[j].ok /\ log[j].text = "Updated"
  /\ AllEvents("skip") # {}


\* The required credential variables, and whether one is unset or empty.
CredentialVars ==
  {"CLOUDFLARE_ACCOUNT_ID", "R2_ACCESS_KEY_ID", "R2_SECRET_ACCESS_KEY"}

UnsetOrEmpty(v) == env[v] = JSUndefined \/ env[v] = Str(<<>>)

\* C6 (fatal short-circuit): when a required credential variable is unset
\* or empty, a started process does nothing but exit with status 1: it
\* reads no directory and no file and sends no request (the log stays
\* empty, no list of files exists), and the names it printed are exactly
\* those of the unset or empty credential variables, each once.
FatalShortCircuit ==
  (\E v \in CredentialVars : UnsetOrEmpty(v)) =>
    /\ pc \in {"idle", "exited"}
    /\ log = <<>> /\ localFiles = <<>>
    /\ pc = "exited" =>
         /\ exitCode = 1
         /\ {reported[i] : i \in 1..Len(reported)} =
              {v \in CredentialVars : UnsetOrEmpty(v)}
         /\ Len(reported) =
              Cardinality({v \in CredentialVars : UnsetOrEmpty(v)})

\* A process exited after naming two variables, one unset and one empty,
\* while R2_BUCKET_NAME, unset too, is not named.
FatalShortCircuitWitness ==
  /\ pc = "exited" /\ exitCode = 1
  /\ reported = <<"R2_ACCESS_KEY_ID", "R2_SECRET_ACCESS_KEY">>
  /\ env["R2_ACCESS_KEY_ID"] = JSUndefined
  /\ env["R2_SECRET_ACCESS_KEY"] = Str(<<>>)
  /\ env["R2_BUCKET_NAME"] = JSUndefined

\* The files whose lookup led to the upload branch: classified New or
\* Modified.
NewOrModified == {log[i].file : i \in {j \in Lookups : ~Skipped(j)}}

\* The files whose PutObject succeeded.
UploadedFiles == {log[j].file : j \in {u \in AllEvents("put") : log[u].ok}}

\* C7 as stated (byte accounting): at the summary totalBytes is the sum of
\* the sizes of the files classified New or Modified in the run.
ByteAccountingAsStated ==
  pc = "done" => totalBytes = SumOfSizes(NewOrModified)

\* C7 as amended: throughout the run and at the summary, totalBytes is the
\* sum of the sizes of the files classified New or Modified whose upload
\* succeeded; a file that is skipped, or whose upload failed, adds nothing.
ByteAccounting ==
  pc \in {"hash", "head", "put", "done"} =>
    /\ UploadedFiles \subseteq NewOrModified
    /\ totalBytes = SumOfSizes(UploadedFiles)

\* A summary after one file was skipped, one uploaded and one upload failed.
ByteAccountingWitness ==
  /\ pc = "done"
  /\ AllEvents("skip") # {}
  /\ Cardinality(UploadedFiles) = 1 /\ Cardinality(NewOrModified) = 2
  /\ totalBytes = SumOfSizes(UploadedFiles) /\ totalBytes > 0

\* C8 (resolve errors): a lookup fails iff its request ended with an error
\* other than NotFound, and returns 'absent' (null) iff it ended with
\* NotFound.  A failed lookup goes straight to the catch block, which
\* records the file with the error's message; no PutObject is issued for
\* the file and it is not skipped; uploaded and skipped count the
\* successful uploads and the skips only.
ResolveErrors ==
  /\ \A i \in AllEvents("head") :
       LET f == log[i].file IN
       /\ log[i].ok <=> log[i].message \in {"", "NotFound"}
       /\ (log[i].ok /\ log[i].etag = JSNull) <=> log[i].message = "NotFound"
       /\ ~log[i].ok =>
            /\ i < Len(log)
            /\ log[i + 1].op = "error" /\ log[i + 1].file = f
            /\ \E k \in 1..Len(errors) :
                 errors[k] = [file |-> f, error |-> log[i].message]
            /\ EventsOf("put", f) = {} /\ EventsOf("skip", f) = {}
  /\ uploaded = Cardinality({j \in AllEvents("put") : log[j].ok})
  /\ skipped = Cardinality(AllEvents("skip"))

\* The lookup of a file the bucket does not hold timed out: the file is in
\* the error list and was not uploaded, while another file was.
ResolveErrorsWitness ==
  /\ pc = "done" /\ uploaded > 0
  /\ \E i \in AllEvents("head") :
       /\ ~log[i].ok /\ ~log[i].there /\ log[i].message = "TimeoutError"
       /\ \E k \in 1..Len(errors) : errors[k].file = log[i].file

\* The upper-case form of a character of an extension.
UpperChar(c) == IF c \in DOMAIN Upper THEN Upper[c] ELSE c

\* The name ends in the extension ext (with its dot), in any letter case.
EndsInExtension(name, ext) ==
  /\ Len(name) >= Len(ext)
  /\ \A k \in 1..Len(ext) :
       name[Len(name) - Len(ext) + k] \in {ext[k], UpperChar(ext[k])}

Allowlisted(name) ==
  \E ext \in {DotSvg, DotPng, DotJson} : EndsInExtension(name, ext)

\* C9 (extension filtering): a file whose name does not end in .svg, .png
\* or .json (in any letter case, as the scanner compares) is in no scan
\* list, is never read for its digest, never looked up and never uploaded,
\* and the bucket holds no object for it, at any depth of the tree; after
\* the scan every existing file whose name does end in one of them is in
\* the list exactly once.
ExtensionFiltering ==
  /\ \A i \in 1..Len(log) : log[i].op # "scan" => Allowlisted(log[i].file.name)
  /\ \A k \in 1..Len(localFiles) : Allowlisted(localFiles[k].name)
  /\ \A k \in Keys : remote[k].present => Allowlisted(k.name)
  /\ pc \in {"hash", "head", "put", "done"} =>
       \A f \in Files :
         (local[f].present /\ Allowlisted(f.name)) =>
           Cardinality({k \in 1..Len(localFiles) : localFiles[k] = f}) = 1

\* A run that uploaded the three allowlisted files, c.PNG two directories
\* down among them, and listed neither d.svg.bak beside it nor the file
\* named svg, which both exist.
ExtensionFilteringWitness ==
  /\ pc = "done" /\ uploaded = 3
  /\ Scanned = {FileA, FileB, FileC}
  /\ local[FileD].present /\ local[FileE].present
  /\ ~Allowlisted(FileD.name) /\ ~Allowlisted(FileE.name)

\* C10 as stated (authentication and bucket failures are fatal up front):
\* when the store refuses the credentials or the bucket does not exist, no
\* file is fingerprinted, looked up or uploaded, no per-file error is
\* recorded and the run does not reach its summary.
AuthFailureFatalUpFront ==
  storeMode # "ok" =>
    /\ \A i \in 1..Len(log) : log[i].op \notin {"hash", "head", "put", "error"}
    /\ errors = <<>>
    /\ pc # "done"

\* File f lies in the subtree of directory d.
InSubtree(f, d) == Len(f.dir) >= Len(d) /\ SubSeq(f.dir, 1, Len(d)) = d

\* C11 as stated (scan errors do not abort the run): when a subdirectory of
\* the sync root cannot be read, a run that made its scan does not exit
\* with status 1: it goes on to the per-file loop with every existing
\* allowlisted file outside the unreadable subtree in its list.
ScanErrorsDoNotAbort ==
  ((\E d \in unreadable : d # <<>>) /\ AllEvents("scan") # {}) =>
    /\ pc # "exited"
    /\ \A f \in Files :
         (/\ local[f].present /\ Allowlisted(f.name)
          /\ \A d \in unreadable : ~InSubtree(f, d)) => f \in Scanned


\* The key 'football_logos/<relativePath>' of file f.
KeyOf(f) == [dir |-> << <<"football_logos">> >> \o f.dir, name |-> f.name]

\* This run follows, with no edit of the tree in between, a run that was
\* killed or that reached its summary with per-file errors; the store
\* accepts the credentials and the bucket exists; the run is at its summary.
LaterRun ==
  /\ prev.interrupted \/ (prev.summary /\ ~prev.clean)
  /\ prev.quiet
  /\ storeMode = "ok"
  /\ pc = "done"

\* The files whose lookup found the key absent or holding other content.
OutOfSync ==
  {log[i].file :
     i \in {j \in Lookups :
              ~log[j].there \/ MD5Hex(log[j].bytes) # MD5Hex(local[log[j].file].bytes)}}

\* The run uploaded exactly the files that were out of sync, and every
\* scanned file's object now has the digest of the local file.
Converged ==
  /\ UploadedFiles = OutOfSync
  /\ \A i \in Lookups :
       log[i].file \notin OutOfSync => EventsOf("put", log[i].file) = {}
  /\ \A f \in Scanned :
       /\ remote[KeyOf(f)].present
       /\ StripQuotes(ETagOf(remote[KeyOf(f)])) = Str(MD5Hex(local[f].bytes))

\* C12 as stated (safe re-run after partial failure): a later run with no
\* local change and no failed request to the store uploads exactly the
\* files that were out of sync and ends with every scanned file in sync.
SafeRerunAsStated ==
  (LaterRun /\ \A i \in AllEvents("head") \cup AllEvents("put") : log[i].ok)
    => Converged

\* C12 as amended: a later run with no local change in which no step fails
\* (no request to the store and no read of a local file) uploads exactly
\* the files that were out of sync, not those already in sync, and ends
\* with every scanned file's remote digest equal to its local digest.
SafeRerun ==
  (LaterRun /\ \A i \in 1..Len(log) : log[i].ok) => Converged

\* After a run that was killed once it had uploaded a file, a run with no
\* failure skipped that file and uploaded the others.
SafeRerunWitness ==
  /\ LaterRun /\ prev.interrupted
  /\ \A i \in 1..Len(log) : log[i].ok
  /\ Len(localFiles) = 3 /\ uploaded > 0
  /\ \E t \in prev.synced :
       t.text = "Uploaded" /\ EventsOf("skip", t.file) # {}

\* C13 (exit status): a process exits with status 1 only when
\* validateConfig found a variable missing (nothing was scanned) or the
\* scan threw (an error outside the per-file loop), and then no per-file
\* error was recorded; a run in its loop has status 0, and a run that
\* reached its summary exits with status 0 whatever its list of errors.
ExitStatus ==
  /\ pc \in {"scan", "hash", "head", "put", "done"} => exitCode = 0
  /\ exitCode # 0 => pc = "exited"
  /\ pc = "exited" =>
       /\ exitCode = 1
       /\ errors = <<>>
       /\ \/ reported # <<>> /\ log = <<>>
          \/ /\ reported = <<>> /\ Len(log) = 1
             /\ log[1].op = "scan" /\ ~log[1].ok

\* A run whose every file failed reached its summary and exits with 0.
ExitStatusWitness ==
  /\ pc = "done" /\ exitCode = 0
  /\ Len(localFiles) = 3 /\ Len(errors) = 3

\* C14 (no deletion propagation): in every step, an object the bucket holds
\* stays in the bucket; the bucket changes only by the PutObject of the file
\* the loop is at, a file of the scan's list, and only at the key
\* 'football_logos/<relativePath>' of that file; the object at the key of a
\* file that does not exist locally is left as it is.
NoDeletion ==
  [][/\ remote' # remote => pc = "put"
     /\ \A k \in DOMAIN remote :
          /\ remote[k].present => remote'[k].present
          /\ remote'[k] # remote[k] =>
               /\ localPath \in Scanned
               /\ k = KeyOf(localPath)
               /\ local[localPath].present
               /\ remote'[k].bytes = local[localPath].bytes
     /\ \A f \in Files :
          (~local[f].present /\ KeyOf(f) \in DOMAIN remote) =>
            remote'[KeyOf(f)] = remote[KeyOf(f)]]_vars

\* A run uploaded a file and reached its summary while the bucket still
\* holds the object of a file that was deleted locally before the run.
NoDeletionWitness ==
  /\ pc = "done" /\ uploaded > 0
  /\ \E f \in Files :
       /\ ~local[f].present
       /\ remote[KeyOf(f)].present
       /\ f \notin Scanned

\* C15 (bucket name default): when R2_BUCKET_NAME is unset or empty, every
\* HeadObject and PutObject of the run names the bucket 'football-logos',
\* validateConfig never prints R2_BUCKET_NAME, and it lets the run start
\* unless a credential variable is missing.
BucketDefault ==
  UnsetOrEmpty("R2_BUCKET_NAME") =>
    /\ \A i \in AllEvents("head") \cup AllEvents("put") :
         log[i].bucket = Str(<<"football-logos">>)
    /\ \A i \in 1..Len(reported) : reported[i] # "R2_BUCKET_NAME"
    /\ (pc = "exited" /\ log = <<>>) => \E v \in CredentialVars : UnsetOrEmpty(v)

\* With R2_BUCKET_NAME set to the empty string, a run looked up and
\* uploaded files in the bucket 'football-logos'.
BucketDefaultWitness ==
  /\ env["R2_BUCKET_NAME"] = Str(<<>>)
  /\ pc = "done" /\ uploaded = 3
  /\ \A i \in AllEvents("head") \cup AllEvents("put") :
       log[i].bucket = Str(<<"football-logos">>)

\* The logos the loop took, as a set.
Visited == {visited[i].logo : i \in 1..Len(visited)}

\* C16 as stated (batch conversion covers every logo): a run of the script
\* that could start ends with its totals printed, having taken every logo
\* that find lists exactly once: skipped, with no converter run, when its
\* coloring page existed, converted or failed otherwise; and then
\* CONVERTED + FAILED = TOTAL.
BatchConversion ==
  (venvPresent /\ cpc \in {"summary", "aborted"}) =>
    /\ cpc = "summary"
    /\ Visited = found /\ Len(visited) = Cardinality(found)
    /\ CONVERTED + FAILED = TOTAL
    /\ \A i \in 1..Len(visited) :
         visited[i].outcome # "failed" => visited[i].logo \in outputs

\* The number of files whose processing has finished.
Finished ==
  IF pc \in {"hash", "head", "put"} THEN idx - 1
  ELSE IF pc = "done" THEN Len(localFiles)
  ELSE 0

\* The files the error list names.
FailedFiles == {errors[k].file : k \in 1..Len(errors)}

\* The files that were skipped.
SkippedFiles == {log[i].file : i \in AllEvents("skip")}

\* C17 (outcome partition): at every point of the per-file loop and at the
\* summary, uploaded + skipped + the number of recorded errors is the
\* number of files whose processing has finished (at the summary: the
\* number of scanned files); every finished file is in exactly one of the
\* three groups, each group has as many files as its counter says, and a
\* failed file is counted neither as uploaded nor as skipped and adds no
\* bytes to totalBytes.
OutcomePartition ==
  pc \in {"hash", "head", "put", "done"} =>
    /\ uploaded + skipped + Len(errors) = Finished
    /\ UploadedFiles \cup SkippedFiles \cup FailedFiles =
         {localFiles[k] : k \in 1..Finished}
    /\ UploadedFiles \cap SkippedFiles = {}
    /\ UploadedFiles \cap FailedFiles = {}
    /\ SkippedFiles \cap FailedFiles = {}
    /\ Cardinality(UploadedFiles) = uploaded
    /\ Cardinality(SkippedFiles) = skipped
    /\ Cardinality(FailedFiles) = Len(errors)
    /\ totalBytes = SumOfSizes(UploadedFiles)

\* In the middle of the loop, with the third file being looked up, one
\* file was uploaded and one failed; and at a summary one of each.
OutcomePartitionWitness ==
  \/ /\ pc = "head" /\ idx = 3
     /\ uploaded = 1 /\ skipped = 0 /\ Len(errors) = 1 /\ totalBytes > 0
  \/ /\ pc = "done"
     /\ uploaded = 1 /\ skipped = 1 /\ Len(errors) = 1

\* The entries at positions i and i + 1 of the log are about the same file.
SameFile(i) == log[i].file = log[i + 1].file

\* C18 (per-file step order): the history of a run is the scan and then,
\* file after file, the fingerprint, then the lookup (only after a
\* fingerprint that returned, and with its digest), then the skip or the
\* PutObject (only after a lookup that returned), each at most once per
\* file; a step that fails is followed at once by the file's error entry
\* and by no other step of that file, and an error entry only follows a
\* failed step.
StepOrder ==
  /\ \A i \in 1..Len(log) :
       /\ log[i].op = "scan" <=> i = 1
       /\ log[i].op = "hash" =>
            /\ log[i - 1].op \in {"scan", "skip", "put", "error"}
            /\ \A j \in 1..(i - 1) : log[j].file # log[i].file
       /\ log[i].op = "head" =>
            /\ log[i - 1].op = "hash" /\ SameFile(i - 1)
            /\ log[i - 1].ok /\ log[i].hash = log[i - 1].hash
       /\ log[i].op \in {"skip", "put"} =>
            /\ log[i - 1].op = "head" /\ SameFile(i - 1)
            /\ log[i - 1].ok
       /\ log[i].op = "error" =>
            /\ log[i - 1].op \in {"hash", "head", "put"} /\ SameFile(i - 1)
            /\ ~log[i - 1].ok
       /\ (~log[i].ok /\ log[i].op \in {"hash", "head", "put"}) =>
            /\ i < Len(log)
            /\ log[i + 1].op = "error" /\ SameFile(i)
            /\ \A j \in (i + 2)..Len(log) : log[j].file # log[i].file
  /\ \A f \in Files : \A op \in {"hash", "head", "skip", "put", "error"} :
       Cardinality(EventsOf(op, f)) <= 1
  /\ pc = "head" =>
       /\ log[Len(log)].op = "hash" /\ log[Len(log)].ok
       /\ log[Len(log)].file = localPath
  /\ pc = "put" =>
       /\ log[Len(log)].op = "head" /\ log[Len(log)].ok
       /\ log[Len(log)].file = localPath

\* A run in which one file failed at its fingerprint, a later one was
\* skipped and another one uploaded.
StepOrderWitness ==
  /\ pc = "done"
  /\ \E i \in AllEvents("hash") : ~log[i].ok /\ i < Len(log) - 2
  /\ AllEvents("skip") # {}
  /\ \E j \in AllEvents("put") : log[j].ok

\* C19 as stated (the digest that decides is the digest of the bytes sent):
\* for every PutObject that succeeded, the local digest that was compared
\* with the bucket's is the digest of the bytes the request sent, which are
\* the bytes of the object now stored, and the size added to totalBytes is
\* the number of bytes sent, also when another program writes the file
\* between its fingerprint and its upload.
DigestOfBytesSent ==
  \A j \in AllEvents("put") :
    log[j].ok =>
      /\ log[j].hash = Str(MD5Hex(log[j].bytes))
      /\ log[j].hash = StripQuotes(ETagOf(remote[log[j].key]))
      /\ log[j].size = Len(log[j].bytes)

\* C20 (unchanged files are never re-transferred): every PutObject of a
\* run, issued or about to be, directly follows a lookup of the same file
\* in this run that returned 'absent' or a digest other than the local one
\* (the bucket then held nothing at the key, or other content); and after a
\* file is skipped the run has no further step for it: no PutObject and no
\* second read of its content.
UnchangedNeverRetransferred ==
  LET Differs(i) ==
        /\ log[i].op = "head" /\ log[i].ok
        /\ log[i].etag = JSNull \/ log[i].etag # log[i].hash
        /\ ~log[i].there \/ log[i].bytes # local[log[i].file].bytes
  IN  /\ \A j \in AllEvents("put") : SameFile(j - 1) /\ Differs(j - 1)
      /\ pc = "put" => log[Len(log)].file = localPath /\ Differs(Len(log))
      /\ \A i \in AllEvents("skip") :
           /\ log[i - 1].etag = log[i - 1].hash
           /\ \A j \in 1..Len(log) :
                (log[j].file = log[i].file /\ log[j].op \in {"hash", "put"}) =>
                  /\ j < i
                  /\ log[j].op = "hash"
           /\ Cardinality(EventsOf("hash", log[i].file)) = 1
           /\ pc \in {"hash", "head", "put"} => localPath # log[i].file

\* A run that skipped the file in sync and uploaded the two others, one
\* absent from the bucket and one held with other content.
UnchangedNeverRetransferredWitness ==
  /\ pc = "done" /\ skipped = 1 /\ uploaded = 2
  /\ \E j \in AllEvents("put") : log[j - 1].etag = JSNull
  /\ \E j \in AllEvents("put") : Truthy(log[j - 1].etag)

\* C21 (no internal retry): in one run each file has at most one
\* HeadObject and at most one PutObject; a PutObject that failed is
\* followed at once by the file's entry in the error list, with the
\* request's error message, the file is in the list once, and the run has
\* no further step for it.
NoRetry ==
  /\ \A f \in Files :
       /\ Cardinality(EventsOf("head", f)) <= 1
       /\ Cardinality(EventsOf("put", f)) <= 1
  /\ \A j \in AllEvents("put") :
       ~log[j].ok =>
         /\ log[j].message # ""
         /\ j < Len(log)
         /\ log[j + 1].op = "error" /\ SameFile(j)
         /\ log[j + 1].message = log[j].message
         /\ Cardinality({k \in 1..Len(errors) :
                           errors[k].file = log[j].file}) = 1
         /\ \E k \in 1..Len(errors) :
              errors[k] = [file |-> log[j].file, error |-> log[j].message]
         /\ \A i \in (j + 2)..Len(log) : log[i].file # log[j].file
         /\ pc \in {"hash", "head", "put"} => localPath # log[j].file

\* The PutObject of the first of three files timed out; the run went on
\* to the two others and reached its summary with one error.
NoRetryWitness ==
  /\ pc = "done" /\ Len(localFiles) = 3
  /\ \E j \in AllEvents("put") :
       /\ ~log[j].ok /\ log[j].message = "TimeoutError"
       /\ log[j].file = localFiles[1]
  /\ Len(errors) = 1 /\ uploaded + skipped = 2

\* The content type of a name's extension, in any letter case.
TypeOfExtension(name) ==
  IF EndsInExtension(name, DotSvg) THEN "image/svg+xml"
  ELSE IF EndsInExtension(name, DotPng) THEN "image/png"
  ELSE IF EndsInExtension(name, DotJson) THEN "application/json"
  ELSE "application/octet-stream"

\* C22 as stated (content type by extension): every PutObject carries the
\* content type of the file's extension, in whatever letter case the
\* scanner admitted it, and the cache directive
\* 'public, max-age=31536000, immutable'.
ContentTypeByExtension ==
  \A j \in AllEvents("put") :
    /\ log[j].ctype = TypeOfExtension(log[j].file.name)
    /\ log[j].cache = "public, max-age=31536000, immutable"

\* The 'error' entries of the log, in order.
ErrorEntries == SelectSeq(log, LAMBDA e : e.op = "error")

\* The position of file f in the scan's list.
PositionOf(f) == CHOOSE k \in 1..Len(localFiles) : localFiles[k] = f

\* C23 (summary after all files): when the summary is emitted every
\* scanned file is uploaded, skipped or failed, and the error list holds
\* exactly the files that failed, in the order they were processed, each
\* with its relative path and its error message; the summary is emitted
\* once per run: it is reached from the loop's last file (or the scan of
\* an empty tree), and after it the process only ends.
SummaryAfterAllFiles ==
  /\ [](pc = "done" =>
          /\ Scanned = UploadedFiles \cup SkippedFiles \cup FailedFiles
          /\ Len(errors) = Len(ErrorEntries)
          /\ \A k \in 1..Len(errors) :
               errors[k] = [file |-> ErrorEntries[k].file,
                            error |-> ErrorEntries[k].message]
          /\ \A k, m \in 1..Len(errors) :
               k < m => PositionOf(errors[k].file) < PositionOf(errors[m].file))
  /\ [][/\ pc = "done" => pc' = "idle"
        /\ (pc' = "done" /\ pc # "done") =>
             /\ pc \in {"scan", "hash", "head", "put"}
             /\ idx' = Len(localFiles')]_vars

\* A summary with three errors, in the order of the scan's list.
SummaryAfterAllFilesWitness ==
  /\ pc = "done" /\ Len(localFiles) = 3 /\ Len(errors) = 3
  /\ \A k \in 1..3 : errors[k].file = localFiles[k]
  /\ errors[1].error = "Forbidden"

\* C24 as stated (an unresponsive request cannot stall the run): once a
\* request of the run is left unanswered, the run eventually emits its
\* summary, with the file of that request in its list of errors.
UnresponsiveRequestCannotStall ==
  (pc = "stalled") ~> (pc = "done" /\ errors # <<>>)

\* The fingerprint entries of the log, in order.
HashEntries == SelectSeq(log, LAMBDA e : e.op = "hash")

\* An entry that ends a file's processing.
Terminal(e) == e.op \in {"skip", "error"} \/ (e.op = "put" /\ e.ok)

\* C25 (strictly sequential processing): the files are fingerprinted in
\* the order of the scan's list; the fingerprint of a file other than the
\* first directly follows the entry that ended the previous file of the
\* list; the entries of one file are never interleaved with another's; and
\* the only request that may be in flight is the one of the file the loop
\* is at, every file before it being finished.
Sequential ==
  /\ \A k \in 1..Len(HashEntries) : HashEntries[k].file = localFiles[k]
  /\ \A i \in AllEvents("hash") :
       i > 2 =>
         /\ Terminal(log[i - 1])
         /\ PositionOf(log[i - 1].file) + 1 = PositionOf(log[i].file)
  /\ \A i, m \in 1..Len(log) :
       (i < m /\ log[i].file = log[m].file) =>
         \A j \in i..m : log[j].file = log[i].file
  /\ pc \in {"hash", "head", "put"} =>
       /\ Len(HashEntries) = (IF pc = "hash" THEN idx - 1 ELSE idx)
       /\ \A k \in 1..(idx - 1) :
            \E i \in 1..Len(log) :
              log[i].file = localFiles[k] /\ Terminal(log[i])

\* The third file's PutObject is in flight after the first was uploaded
\* and the second skipped.
SequentialWitness ==
  /\ pc = "put" /\ idx = 3
  /\ uploaded = 1 /\ skipped = 1
  /\ Len(HashEntries) = 3

\* C26 (remote key derivation): the key of a file is 'football_logos/'
\* followed by its relative path, whatever the state of the run, the tree
\* and the bucket; every request of every run uses that key; two distinct
\* files have distinct keys; and the bucket holds objects at such keys only.
KeyDerivation ==
  /\ \A f \in Files : R2Key(f) = KeyOf(f)
  /\ \A f, g \in Files : f # g => R2Key(f) # R2Key(g)
  /\ \A i \in AllEvents("head") \cup AllEvents("put") :
       log[i].key = KeyOf(log[i].file)
  /\ pc \in {"head", "put"} => r2Key = KeyOf(localPath)
  /\ \A k \in DOMAIN remote :
       remote[k].present => \E f \in Files : k = KeyOf(f)

\* A second run uploads, at the same key, a file that the first run
\* uploaded and that was rewritten since.
KeyDerivationWitness ==
  /\ pc = "done" /\ run = 2
  /\ \E j \in AllEvents("put") :
       /\ log[j].ok /\ log[j].key = KeyOf(log[j].file)
       /\ Len(log[j].file.dir) = 1
       /\ \E t \in prev.synced :
            t.file = log[j].file /\ t.text = "Uploaded"

\* C27 (ETag normalisation): when the HeadObject of a key succeeds the
\* object exists and the lookup's result is not 'absent': it is the
\* store's ETag with no double quote left, which is the MD5 hex of the
\* object's bytes; so when the object's bytes are the local file's the
\* result equals the local digest and the file is skipped.
ETagNormalisation ==
  \A i \in AllEvents("head") :
    log[i].message = "" =>
      /\ log[i].there /\ log[i].ok
      /\ log[i].etag.t = "string"
      /\ \A c \in 1..Len(log[i].etag.v) : log[i].etag.v[c] # "\""
      /\ log[i].etag = Str(MD5Hex(log[i].bytes))
      /\ log[i].bytes = local[log[i].file].bytes =>
           log[i].etag = log[i].hash /\ Skipped(i)

\* A file whose object holds the same bytes was skipped, and one whose
\* object holds other bytes was found present and updated.
ETagNormalisationWitness ==
  /\ pc = "done"
  /\ \E i \in AllEvents("head") :
       log[i].message = "" /\ log[i].etag = log[i].hash /\ Skipped(i)
  /\ \E i \in AllEvents("head") :
       /\ log[i].message = "" /\ log[i].etag # log[i].hash
       /\ \E j \in EventsOf("put", log[i].file) : log[j].text = "Updated"

-----------------------------------------------------------------------------
\* formatBytes of sync-to-r2.js

\* The sampled byte totals take every number of bytes up to MaxSmall above
\* each sampled multiple of K * K.
MaxSmall == 15

\* const k = 1024
K == 1024

\* const sizes = ['Bytes', 'KB', 'MB', 'GB']
Sizes == <<"Bytes", "KB", "MB", "GB">>

\* A byte total is a JavaScript number that holds an integer. It is kept
\* here in two parts, bytes = mega * K * K + rest with rest < K * K, so
\* that totals of a tebibyte and more stay within the checker's integers.
Mega == K * K

IsZero(b) == b.mega = 0 /\ b.rest = 0

\* The totals formatBytes is given: around every boundary between two
\* units, and small ones.
SampleRest ==
  (0..MaxSmall) \cup {512, 1000, K - 1, K, K + 1, K + 512, 10 * K,
                      1023 * K + 1023, Mega \div 2, Mega - 1}

SampleMega ==
  {0, 1, 2, 512, K - 1, K, K + 1, K + 512, Mega - 1, Mega, Mega + 1,
   2 * Mega, 5 * Mega}

ByteTotals == {[mega |-> q, rest |-> r] : q \in SampleMega, r \in SampleRest}

\* K to the power e (Math.pow(k, i)).
RECURSIVE Pow(_)
Pow(e) == IF e = 0 THEN 1 ELSE K * Pow(e - 1)

\* Math.floor(Math.log(n) / Math.log(k)) of an integer n >= 1 below 2^31.
RECURSIVE FloorLogK(_)
FloorLogK(n) == IF n < K THEN 0 ELSE 1 + FloorLogK(n \div K)

\* const i = Math.floor(Math.log(bytes) / Math.log(k))
UnitIndex(b) ==
  IF b.mega = 0 THEN FloorLogK(b.rest) ELSE 2 + FloorLogK(b.mega)

\* Math.round(bytes / Math.pow(k, i) * 100): the hundredths of the value
\* shown, halves rounded up.
Hundredths(b, i) ==
  IF b.mega = 0
    THEN (200 * b.rest + Pow(i)) \div (2 * Pow(i))
    ELSE (200 * b.mega + Pow(i - 2) + (200 * b.rest) \div Mega)
           \div (2 * Pow(i - 2))

\* sizes[i]: undefined prints as 'undefined' when i is past the last unit.
SizeAt(i) == IF i + 1 \in DOMAIN Sizes THEN Sizes[i + 1] ELSE "undefined"

\* The string returned is value / 100 + ' ' + unit.
formatBytes(b) ==
  IF IsZero(b)
    THEN [value |-> 0, unit |-> "Bytes"]
    ELSE LET i == UnitIndex(b)
         IN  [value |-> Hundredths(b, i), unit |-> SizeAt(i)]

FormatInit ==
  /\ NoSync
  /\ NoConversion
  /\ NoQuery
  /\ NoViewer
  /\ byteCount \in ByteTotals
  /\ formatted = [value |-> 0, unit |-> ""]

\* formatBytes(totalBytes) in the summary line.
FormatBytes ==
  /\ formatted.unit = ""
  /\ formatted' = formatBytes(byteCount)
  /\ UNCHANGED byteCount
  /\ UNCHANGED besidesFormat

FormatNext == FormatBytes

FormatSpec == FormatInit /\ [][FormatNext]_vars

\* The unit the byte total b belongs to, by the bounds of the units: 0 for
\* Bytes below K, 1 for KB below K^2, 2 for MB below K^3, 3 for GB below
\* K^4, and 4 for anything above.
UnitOf(b) ==
  IF b.mega = 0 /\ b.rest < K THEN 0
  ELSE IF b.mega = 0 THEN 1
  ELSE IF b.mega < K THEN 2
  ELSE IF b.mega < Mega THEN 3
  ELSE 4

\* C28 (byte formatting): for every byte total b >= 0 formatBytes reports
\* '0 Bytes' for b = 0, and otherwise the unit with index
\* floor(log base 1024 of b) and the value b / 1024^i rounded to two
\* decimals, between 1 and 1024; the unit is always one of Bytes, KB, MB, GB.
ByteFormatting ==
  formatted.unit # "" =>
    /\ formatted.unit \in {"Bytes", "KB", "MB", "GB"}
    /\ IsZero(byteCount) => formatted = [value |-> 0, unit |-> "Bytes"]
    /\ ~IsZero(byteCount) =>
         /\ UnitOf(byteCount) + 1 \in DOMAIN Sizes
         /\ formatted.unit = Sizes[UnitOf(byteCount) + 1]
         /\ formatted.value \in 100..(100 * K)
         /\ UnitOf(byteCount) = 0 => formatted.value = 100 * byteCount.rest

-----------------------------------------------------------------------------
\* src/lib/data.ts: getCountriesWithCounts and getLogosByCountry

\* The greatest number of logos in metadata.logos.
MaxLogos == 3

\* The country slugs, in the order of localeCompare.
CountrySlugs == <<"england", "italy", "spain">>

BaseNames == {"arsenal", "roma"}

\* A Logo, by the two fields the functions read.
LogoRecords ==
  {[country_slug |-> CountrySlugs[c], base_name |-> b] :
     c \in DOMAIN CountrySlugs, b \in BaseNames}

\* path.join(process.cwd(), 'football_logos', logo.country_slug,
\*           'coloring-pages', `${logo.base_name}_coloring.svg`)
coloringPagePath(logo) ==
  <<"football_logos", logo.country_slug, "coloring-pages",
    logo.base_name, "_coloring.svg">>

\* fs.existsSync(p), given the files that exist.
existsSync(p, existing) == p \in existing

\* a.localeCompare(b): negative, zero or positive.
localeCompare(a, b) ==
  LET rank(x) == CHOOSE i \in DOMAIN CountrySlugs : CountrySlugs[i] = x
  IN  rank(a) - rank(b)

\* A Map<string, number> is the sequence of its entries in insertion order.
MapHas(m, key) == \E i \in DOMAIN m : m[i].slug = key

\* m.get(key) || 0
MapGetOrZero(m, key) ==
  IF MapHas(m, key)
    THEN m[CHOOSE i \in DOMAIN m : m[i].slug = key].count
    ELSE 0

\* m.set(key, value): an entry that is there keeps its place.
MapSet(m, key, value) ==
  IF MapHas(m, key)
    THEN [i \in DOMAIN m |->
            IF m[i].slug = key THEN [slug |-> key, count |-> value]
                               ELSE m[i]]
    ELSE Append(m, [slug |-> key, count |-> value])

\* (seeded fault) the count starts over at every logo
CountOneFromOne(m, key) == MapSet(m, key, 1)

\* countryCounts.set(slug, (countryCounts.get(slug) || 0) + 1)
CountOne(m, key) == MapSet(m, key, MapGetOrZero(m, key) + 1)

\* metadata.logos.forEach(...): the map after the first n logos.
RECURSIVE countryCounts(_, _, _)
countryCounts(logos, existing, n) ==
  IF n = 0 THEN <<>>
  ELSE LET m == countryCounts(logos, existing, n - 1)
           logo == logos[n]
       IN  IF existsSync(coloringPagePath(logo), existing)
             THEN CountOne(m, logo.country_slug)
             ELSE m

\* Array.prototype.sort with the comparator of line 52: stable.
RECURSIVE SortBySlug(_)
SortBySlug(items) ==
  IF items = <<>> THEN <<>>
  ELSE LET n == Len(items)
           sorted == SortBySlug(SubSeq(items, 1, n - 1))
           last == items[n]
           keep == {i \in DOMAIN sorted :
                      localeCompare(sorted[i].slug, last.slug) <= 0}
           k == IF keep = {} THEN 0
                ELSE CHOOSE i \in keep : \A j \in keep : j <= i
       IN  SubSeq(sorted, 1, k) \o <<last>> \o SubSeq(sorted, k + 1, n - 1)

getCountriesWithCounts(logos, existing) ==
  LET entries == countryCounts(logos, existing, Len(logos))
      shown(item) == item.count > 0
  IN  SortBySlug(SelectSeq(entries, shown))

getLogosByCountry(logos, existing, countrySlug) ==
  LET kept(logo) ==
        IF logo.country_slug # countrySlug THEN FALSE
        ELSE existsSync(coloringPagePath(logo), existing)
  IN  SelectSeq(logos, kept)

\* The metadata values the functions are called with.
RECURSIVE SeqsUpTo(_, _)
SeqsUpTo(S, n) ==
  IF n = 0 THEN {<<>>}
  ELSE LET shorter == SeqsUpTo(S, n - 1)
       IN  shorter \cup {Append(q, x) : q \in shorter, x \in S}

DataInit ==
  /\ NoSync
  /\ NoConversion
  /\ NoFormat
  /\ NoViewer
  /\ metadata \in SeqsUpTo(LogoRecords, MaxLogos)
  /\ pages \in SUBSET {coloringPagePath(l) : l \in LogoRecords}
  /\ queried = FALSE
  /\ countries = <<>>
  /\ logosByCountry = <<>>

\* The pages of the site call both functions on the metadata, with the
\* same files on disk.
Query ==
  /\ ~queried
  /\ queried' = TRUE
  /\ countries' = getCountriesWithCounts(metadata, pages)
  /\ logosByCountry' =
       [c \in DOMAIN CountrySlugs |->
          getLogosByCountry(metadata, pages, CountrySlugs[c])]
  /\ UNCHANGED <<metadata, pages>>
  /\ UNCHANGED besidesData

DataNext == Query

DataSpec == DataInit /\ [][DataNext]_vars

\* The entries of the result of getCountriesWithCounts for the slug s.
EntriesFor(s) == {i \in DOMAIN countries : countries[i].slug = s}

\* C29 (country counts agree with country listings): for every metadata
\* value and every country slug s, under a fixed set of existing
\* coloring-page files, the count getCountriesWithCounts reports for s is
\* the length of getLogosByCountry(metadata, s); s appears in the result
\* iff that length is greater than zero, each slug appears at most once,
\* and the result is sorted by slug.
CountsAgreeWithListings ==
  queried =>
    /\ \A c \in DOMAIN CountrySlugs :
         LET s == CountrySlugs[c]
             n == Len(logosByCountry[c])
         IN  /\ Cardinality(EntriesFor(s)) <= 1
             /\ EntriesFor(s) # {} <=> n > 0
             /\ \A i \in EntriesFor(s) : countries[i].count = n
    /\ \A i, j \in DOMAIN countries :
         i < j =>
           \E a, b \in DOMAIN CountrySlugs :
             /\ a < b
             /\ countries[i].slug = CountrySlugs[a]
             /\ countries[j].slug = CountrySlugs[b]

\* A country is listed with a count of two, and a country of the metadata
\* that sorts before the first one listed is left out because its logo has
\* no coloring page.
CountsAgreeWithListingsWitness ==
  /\ queried
  /\ Len(metadata) = MaxLogos
  /\ \E i \in DOMAIN countries : countries[i].count = 2
  /\ \E l \in DOMAIN metadata :
       /\ EntriesFor(metadata[l].country_slug) = {}
       /\ localeCompare(metadata[l].country_slug, countries[1].slug) < 0

-----------------------------------------------------------------------------
\* The viewer's start and stop scripts

\* The greatest number of script runs in a behaviour.
MaxScriptRuns == 6

\* The greatest process id.
MaxPid == 3

\* The process ids the system hands out; the id of a process that has
\* ended may be handed out again.
Pids == 1..MaxPid

\* [ -f http_server.pid ]
PidFileExists(file) == file # 0

\* kill -0 PID 2>/dev/null: the process is there.
KillZero(pid, live) == pid \in live

\* (seeded fault) the start script looks at the file alone
AlreadyRunningByFile(file, live) == PidFileExists(file)

\* [ -f http_server.pid ] && kill -0 $(cat http_server.pid) 2>/dev/null
AlreadyRunning(file, live) == PidFileExists(file) /\ KillZero(file, live)

RunOf(script, launched, killed) ==
  [script |-> script, fileBefore |-> pidFile, aliveBefore |-> alive,
   launched |-> launched, killed |-> killed]

\* One run of the start script. The server it launches in the background
\* may end at once (port 8000 is taken, python3 is missing): the script
\* records its PID all the same.
StartViewer ==
  /\ scriptRuns < MaxScriptRuns
  /\ scriptRuns' = scriptRuns + 1
  /\ IF AlreadyRunning(pidFile, alive)
       THEN /\ UNCHANGED <<pidFile, alive>>
            /\ lastRun' = RunOf("start", {}, {})
       ELSE \E pid \in Pids \ alive, stays \in BOOLEAN :
              /\ alive' = IF stays THEN alive \cup {pid} ELSE alive
              /\ pidFile' = pid
              /\ lastRun' = RunOf("start", {pid}, {})
  /\ UNCHANGED besidesViewer

\* One run of the stop script. kill ends the server before the next
\* script runs.
StopViewer ==
  /\ scriptRuns < MaxScriptRuns
  /\ scriptRuns' = scriptRuns + 1
  /\ IF PidFileExists(pidFile)
       THEN IF KillZero(pidFile, alive)
              THEN /\ alive' = alive \ {pidFile}
                   /\ pidFile' = 0
                   /\ lastRun' = RunOf("stop", {}, {pidFile})
              ELSE /\ pidFile' = 0
                   /\ UNCHANGED alive
                   /\ lastRun' = RunOf("stop", {}, {})
       ELSE /\ UNCHANGED <<pidFile, alive>>
            /\ lastRun' = RunOf("stop", {}, {})
  /\ UNCHANGED besidesViewer

ViewerInit ==
  /\ NoSync
  /\ NoConversion
  /\ NoFormat
  /\ NoQuery
  /\ NoViewer

ViewerNext == StartViewer \/ StopViewer

ViewerSpec == ViewerInit /\ [][ViewerNext]_vars

\* http_server.pid named a live process when the last script began.
NamedLiveProcess ==
  lastRun.fileBefore # 0 /\ lastRun.fileBefore \in lastRun.aliveBefore

\* C30 (viewer server PID-file protocol): after any sequence of sequential
\* runs of the start and stop scripts, at most one server started by the
\* start script is alive; the start script launches no new server and
\* leaves http_server.pid unchanged when the file names a live process, and
\* otherwise launches exactly one and records its PID; the stop script
\* leaves no http_server.pid behind and kills the process only when the
\* recorded PID is alive.
ViewerPidFileProtocol ==
  /\ Cardinality(alive) <= 1
  /\ lastRun.script = "start" =>
       /\ lastRun.killed = {}
       /\ IF NamedLiveProcess
            THEN /\ lastRun.launched = {}
                 /\ pidFile = lastRun.fileBefore
                 /\ alive = lastRun.aliveBefore
            ELSE /\ Cardinality(lastRun.launched) = 1
                 /\ pidFile \in lastRun.launched
                 /\ alive \ lastRun.aliveBefore \subseteq lastRun.launched
  /\ lastRun.script = "stop" =>
       /\ pidFile = 0
       /\ lastRun.launched = {}
       /\ lastRun.killed =
            (IF NamedLiveProcess THEN {lastRun.fileBefore} ELSE {})
       /\ alive = lastRun.aliveBefore \ lastRun.killed

\* In the last of several runs the start script found a stale
\* http_server.pid (its server had ended), launched a server that runs and
\* recorded its PID.
ViewerPidFileProtocolWitness ==
  /\ lastRun.script = "start"
  /\ lastRun.fileBefore # 0
  /\ ~NamedLiveProcess
  /\ lastRun.launched = {pidFile}
  /\ alive = {pidFile}
  /\ scriptRuns = MaxScriptRuns

=============================================================================
